---------------------------- MODULE Spec2Model ----------------------------
(***************************************************************************)
(* A model of the qdrant-genkit adapters.                                  *)
(*                                                                         *)
(*   - the payload value converter of the Go plugin (newValueMap,          *)
(*     newValue, newList, newStruct), specification SpecConv;              *)
(*   - the JS plugin (configureQdrantIndexer, configureQdrantRetriever,    *)
(*     ensureCollection, createQdrantCollection, deleteQdrantCollection)   *)
(*     and the Go plugin (docStore.Index, docStore.Retrieve,               *)
(*     generatePointId) running against one Qdrant backend,                *)
(*     specification Spec.                                                 *)
(*                                                                         *)
(* Strings are sequences of bytes (0..255), so that UTF-8 validity and     *)
(* base64 are computed, not assumed.  Integers are bit patterns held as    *)
(* little-endian sequences of 16-bit limbs, so that the casts to int64     *)
(* keep their width.                                                       *)
(***************************************************************************)
EXTENDS Integers, Sequences, FiniteSets, TLC

(***************************************************************************)
(* Bounds of the model.                                                    *)
(***************************************************************************)
\* Nesting depth of the metadata trees handed to the converter.
MaxDepth == 2

(***************************************************************************)
(* Go values of type any, as the converter's type switch sees them:        *)
(* k is the dynamic type, v the value.                                     *)
(***************************************************************************)
GoNil == [k |-> "nil", v |-> <<>>]
GoBool(b) == [k |-> "bool", v |-> b]
GoInt(t, limbs) == [k |-> t, v |-> limbs]
GoFloat(t, x) == [k |-> t, v |-> x]
GoString(s) == [k |-> "string", v |-> s]
GoBytes(s) == [k |-> "[]byte", v |-> s]
GoMap(f) == [k |-> "map[string]any", v |-> f]
GoList(s) == [k |-> "[]any", v |-> s]
\* A value of a type the switch has no case for (a func, a struct, a chan).
GoFunc == [k |-> "func", v |-> <<>>]

\* The integer types of Go and their widths in bits (int and uint are 64
\* bits wide on the 64-bit platforms the plugin is built for).
SignedTypes == {"int", "int8", "int16", "int32", "int64"}
UnsignedTypes == {"uint", "uint8", "uint16", "uint32", "uint64"}
IntTypes == SignedTypes \cup UnsignedTypes
FloatTypes == {"float32", "float64"}
Bits(t) ==
  CASE t \in {"int8", "uint8"} -> 8
    [] t \in {"int16", "uint16"} -> 16
    [] t \in {"int32", "uint32"} -> 32
    [] OTHER -> 64

LimbBase == 2^16
\* Whether the sign bit of the bit pattern v of width Bits(t) is set.
TopBitSet(t, v) ==
  IF Bits(t) = 8 THEN v[1] >= 2^7 ELSE v[Len(v)] >= 2^15

\* The conversion int64(v) of Go for an integer v of type t: sign extension
\* for the signed types, zero extension for the unsigned ones, and the same
\* 64 bits for a 64-bit operand of either signedness.
int64(t, v) ==
  LET neg == t \in SignedTypes /\ TopBitSet(t, v)
      fill == IF neg THEN LimbBase - 1 ELSE 0
      low == IF Bits(t) = 8 /\ neg THEN <<v[1] + (LimbBase - 2^8)>> ELSE v
  IN  [i \in 1..4 |-> IF i <= Len(low) THEN low[i] ELSE fill]

(***************************************************************************)
(* unicode/utf8.ValidString, on a sequence of bytes.                       *)
(***************************************************************************)
\* Number of bytes of the encoding that starts with byte b (0: b starts none).
utf8Size(b) ==
  IF b < 128 THEN 1
  ELSE IF b >= 194 /\ b <= 223 THEN 2
  ELSE IF b >= 224 /\ b <= 239 THEN 3
  ELSE IF b >= 240 /\ b <= 244 THEN 4
  ELSE 0
\* The range the second byte must lie in (overlong forms, surrogates and
\* code points above U+10FFFF are excluded).
utf8Lo(b) == IF b = 224 THEN 160 ELSE IF b = 240 THEN 144 ELSE 128
utf8Hi(b) == IF b = 237 THEN 159 ELSE IF b = 244 THEN 143 ELSE 191

RECURSIVE ValidFrom(_, _)
ValidFrom(s, i) ==
  IF i > Len(s) THEN TRUE
  ELSE LET b == s[i]
           n == utf8Size(b)
       IN  /\ n > 0
           /\ i + n - 1 <= Len(s)
           /\ (n >= 2 => s[i + 1] >= utf8Lo(b) /\ s[i + 1] <= utf8Hi(b))
           /\ (n >= 3 => s[i + 2] >= 128 /\ s[i + 2] <= 191)
           /\ (n >= 4 => s[i + 3] >= 128 /\ s[i + 3] <= 191)
           /\ ValidFrom(s, i + n)

ValidString(s) == ValidFrom(s, 1)

(***************************************************************************)
(* encoding/base64.StdEncoding.EncodeToString.                             *)
(***************************************************************************)
\* The ASCII code of the n-th character of the standard alphabet.
b64Char(n) ==
  IF n < 26 THEN 65 + n
  ELSE IF n < 52 THEN 97 + (n - 26)
  ELSE IF n < 62 THEN 48 + (n - 52)
  ELSE IF n = 62 THEN 43
  ELSE 47
b64Pad == 61

RECURSIVE EncodeToString(_)
EncodeToString(s) ==
  IF Len(s) = 0 THEN <<>>
  ELSE IF Len(s) = 1 THEN
    <<b64Char(s[1] \div 4), b64Char((s[1] % 4) * 16), b64Pad, b64Pad>>
  ELSE IF Len(s) = 2 THEN
    <<b64Char(s[1] \div 4),
      b64Char((s[1] % 4) * 16 + s[2] \div 16),
      b64Char((s[2] % 16) * 4),
      b64Pad>>
  ELSE
    <<b64Char(s[1] \div 4),
      b64Char((s[1] % 4) * 16 + s[2] \div 16),
      b64Char((s[2] % 16) * 4 + s[3] \div 64),
      b64Char(s[3] % 64)>> \o EncodeToString(SubSeq(s, 4, Len(s)))

(***************************************************************************)
(* The backend's Value union and its constructors.                         *)
(***************************************************************************)
newNullValue == [k |-> "NullValue", v |-> <<>>]
newBoolValue(b) == [k |-> "BoolValue", v |-> b]
newIntegerValue(i) == [k |-> "IntegerValue", v |-> i]
newDoubleValue(x) == [k |-> "DoubleValue", v |-> x]
newStringValue(s) == [k |-> "StringValue", v |-> s]
newStructValue(f) == [k |-> "StructValue", v |-> f]
newListValue(l) == [k |-> "ListValue", v |-> l]

\* A nil *grpc.Value, *grpc.Struct or *grpc.ListValue.
NilValue == [k |-> "nil", v |-> <<>>]

ErrInvalidUTF8 == "invalid UTF-8 in string"
ErrInvalidType == "invalid type"

(***************************************************************************)
(* The converter.  A result is [val, errs]: errs is the set of errors the  *)
(* call may return, empty when it succeeds (val is then the value), and    *)
(* val is nil when it fails.  A Go map is ranged over in an unspecified    *)
(* order and the first error met is returned, so a map with several bad    *)
(* entries may fail with the error of any of them; a slice is ranged over  *)
(* in index order, so the error of its first bad element is returned.      *)
(***************************************************************************)
Ok(val) == [val |-> val, errs |-> {}]
Fail(errs) == [val |-> NilValue, errs |-> errs]

RECURSIVE newValue(_), newList(_), newStruct(_)

\* A conversion of a slice that stores the elements last first: what the
\* order preservation of newList rules out.
newListReversed(v) ==
  LET r == [i \in 1..Len(v) |-> newValue(v[i])]
      bad == {i \in 1..Len(v) : r[i].errs # {}}
  IN  IF bad # {}
      THEN Fail(r[CHOOSE i \in bad : \A j \in bad : i <= j].errs)
      ELSE Ok([i \in 1..Len(v) |-> r[Len(v) + 1 - i].val])

newList(v) ==
  LET r == [i \in 1..Len(v) |-> newValue(v[i])]
      bad == {i \in 1..Len(v) : r[i].errs # {}}
  IN  IF bad # {}
      THEN Fail(r[CHOOSE i \in bad : \A j \in bad : i <= j].errs)
      ELSE Ok([i \in 1..Len(v) |-> r[i].val])

newStruct(v) ==
  LET r == [key \in DOMAIN v |->
              IF ~ValidString(key) THEN Fail({ErrInvalidUTF8})
              ELSE newValue(v[key])]
      errs == UNION {r[key].errs : key \in DOMAIN v}
  IN  IF errs # {} THEN Fail(errs)
      ELSE Ok([key \in DOMAIN v |-> r[key].val])

newValue(v) ==
  CASE v.k = "nil" -> Ok(newNullValue)
    [] v.k = "bool" -> Ok(newBoolValue(v.v))
    [] v.k \in {"int", "int32", "int64", "uint", "uint32", "uint64"} ->
         Ok(newIntegerValue(int64(v.k, v.v)))
    [] v.k \in {"float32", "float64"} -> Ok(newDoubleValue(v.v))
    [] v.k = "string" ->
         IF ~ValidString(v.v) THEN Fail({ErrInvalidUTF8})
         ELSE Ok(newStringValue(v.v))
    [] v.k = "[]byte" -> Ok(newStringValue(EncodeToString(v.v)))
    [] v.k = "map[string]any" ->
         LET v2 == newStruct(v.v)
         IN  IF v2.errs # {} THEN Fail(v2.errs)
             ELSE Ok(newStructValue(v2.val))
    [] v.k = "[]any" ->
         LET v2 == newList(v.v)
         IN  IF v2.errs # {} THEN Fail(v2.errs)
             ELSE Ok(newListValue(v2.val))
    [] OTHER -> Fail({ErrInvalidType})

\* newValueMap panics with the error of newValue: errs is then the set of
\* values it may panic with, and no map is returned.
newValueMap(inputMap) ==
  LET r == [key \in DOMAIN inputMap |-> newValue(inputMap[key])]
      errs == UNION {r[key].errs : key \in DOMAIN inputMap}
  IN  IF errs # {} THEN Fail(errs)
      ELSE Ok([key \in DOMAIN inputMap |-> r[key].val])


(***************************************************************************)
(* Documents.  A document is a sequence of content parts and a metadata    *)
(* mapping.  The metadata is held as the sequence of its entries           *)
(* <<key, value>> in the order the keys were inserted, no key twice: the   *)
(* order a JS object keeps and JSON.stringify writes.  A Go map has no     *)
(* order: MetaMap is the map[string]any the Go plugin sees.                *)
(***************************************************************************)
Text_h1 == <<104, 49>>
Text_h2 == <<104, 50>>
Text_h == <<104>>
Text_2 == <<50>>
Text_g == <<103>>
Text_empty == <<>>
Text_SOME_TEXT == <<83, 79, 77, 69, 95, 84, 69, 88, 84>>
Text_text == <<116, 101, 120, 116>>
\* "a", "b", "\u00e9" (two bytes) and a byte that is no UTF-8
KeyA == <<97>>
KeyB == <<98>>
KeyE == <<195, 169>>
KeyBad == <<255>>
\* "_similarityScore", the metadata key the JS retriever injects
SimilarityScoreKey ==
  <<95, 115, 105, 109, 105, 108, 97, 114, 105, 116, 121, 83, 99, 111, 114, 101>>

IntOf(n) == GoInt("int", <<n, 0, 0, 0>>)
TextPart(t) == [text |-> t]
DocumentFromText(t, meta) == [content |-> <<TextPart(t)>>, metadata |-> meta]

Doc_hello1 ==
  DocumentFromText(Text_h1, <<<<KeyA, IntOf(1)>>, <<KeyB, IntOf(2)>>>>)
\* the content and the metadata mapping of Doc_hello1, keys inserted b, a
Doc_hello1r ==
  DocumentFromText(Text_h1, <<<<KeyB, IntOf(2)>>, <<KeyA, IntOf(1)>>>>)
\* a document of two content parts, "h" and "2"
Doc_hello2 ==
  [content |-> <<TextPart(Text_h), TextPart(Text_2)>>,
   metadata |-> <<<<SimilarityScoreKey, IntOf(7)>>>>]
Doc_empty == DocumentFromText(Text_empty, <<>>)
\* a document the embedder has no embedding for
Doc_unknown == DocumentFromText(Text_g, <<<<KeyA, IntOf(1)>>>>)

\* The documents the embedder has embeddings for, and the batches that hold
\* the one it has none for, alone, before or after a good one.
Docs == {Doc_hello1, Doc_hello1r, Doc_hello2, Doc_empty}
UnknownBatches ==
  {<<Doc_unknown>>, <<Doc_hello1, Doc_unknown>>, <<Doc_unknown, Doc_hello1>>}

\* Documents of the Go plugin whose point cannot be built: a metadata value
\* that json.Marshal encodes and the payload conversion refuses (a string
\* that is no UTF-8), and one that json.Marshal has no encoding for.
Doc_badText == DocumentFromText(Text_empty, <<<<KeyA, GoString(KeyBad)>>>>)
Doc_func == DocumentFromText(Text_empty, <<<<KeyA, GoFunc>>>>)
\* The batches that end in such a document, alone or after a good one.
FailingBatches ==
  {<<Doc_badText>>, <<Doc_hello1, Doc_badText>>,
   <<Doc_func>>, <<Doc_hello1, Doc_func>>}

MetaKeys(doc) == {doc.metadata[i][1] : i \in 1..Len(doc.metadata)}
MetaMap(doc) ==
  [key \in MetaKeys(doc) |->
     doc.metadata[CHOOSE i \in 1..Len(doc.metadata) :
                    doc.metadata[i][1] = key][2]]

\* The text of a document: its parts' texts, concatenated (the
\* strings.Builder loop of Index; Document.text of genkit).
RECURSIVE JoinText(_)
JoinText(parts) ==
  IF Len(parts) = 0 THEN <<>>
  ELSE parts[1].text \o JoinText(Tail(parts))

\* Two documents with the same content: the same parts and the same
\* metadata mapping, whatever the order the keys were inserted in.
SameContent(d1, d2) ==
  d1.content = d2.content /\ MetaMap(d1) = MetaMap(d2)

(***************************************************************************)
(* Serialization and point ids.                                            *)
(***************************************************************************)
\* a < b in the byte order of strings
LessBytes(a, b) ==
  \E i \in 1..Len(b) :
    /\ \A j \in 1..(i - 1) : j <= Len(a) /\ a[j] = b[j]
    /\ (Len(a) < i \/ a[i] < b[i])

RECURSIVE SortedKeys(_)
SortedKeys(S) ==
  IF S = {} THEN <<>>
  ELSE LET m == CHOOSE x \in S : \A y \in S \ {x} : LessBytes(x, y)
       IN  <<m>> \o SortedKeys(S \ {m})

\* Whether encoding/json has no encoding for a value.
RECURSIVE Unmarshalable(_)
Unmarshalable(v) ==
  CASE v.k = "func" -> TRUE
    [] v.k = "map[string]any" -> \E key \in DOMAIN v.v : Unmarshalable(v.v[key])
    [] v.k = "[]any" -> \E i \in 1..Len(v.v) : Unmarshalable(v.v[i])
    [] OTHER -> FALSE

\* json.Marshal(doc): the text is stood for by its structure; encoding/json
\* writes the keys of a map in sorted order.
jsonMarshal(doc) ==
  LET m == MetaMap(doc)
      keys == SortedKeys(DOMAIN m)
  IN  [content |-> doc.content,
       metadata |-> [i \in 1..Len(keys) |-> <<keys[i], m[keys[i]]>>]]

\* JSON.stringify(doc): the keys of an object are written in the order
\* they were inserted.
JSONstringify(doc) == [content |-> doc.content, metadata |-> doc.metadata]

\* A name-based UUID: the SHA-1 digest is taken to be free of collisions, so
\* the UUID is stood for by its namespace and name.
uuidNewSHA1(ns, name) == [ns |-> ns, name |-> name]

\* generatePointId of the Go plugin: [id, err]
generatePointId(doc) ==
  IF \E i \in 1..Len(doc.metadata) : Unmarshalable(doc.metadata[i][2])
  THEN [id |-> <<>>, err |-> "qdrant: error marshaling document"]
  ELSE [id |-> uuidNewSHA1("DNS", jsonMarshal(doc)), err |-> ""]

\* the id the JS indexer gives the point of an embedding document
uuidv5(embeddingDoc) == uuidNewSHA1("URL", JSONstringify(embeddingDoc))

(***************************************************************************)
(* The embedder: the fake embedder of the plugin's test, a registry of the *)
(* embedding of each document it knows; any other document is an error.    *)
(***************************************************************************)
Vec_h1 == <<0, 1>>
Vec_h2 == <<1, 1>>
Vec_far == <<4, 4>>
Vec_2 == <<1, 2>>

Registry ==
  (Doc_hello1 :> Vec_h1) @@ (Doc_hello1r :> Vec_h1) @@ (Doc_hello2 :> Vec_h2)
    @@ (Doc_empty :> Vec_far)
    @@ (Doc_badText :> Vec_far) @@ (Doc_func :> Vec_far)
    @@ (DocumentFromText(Text_SOME_TEXT, <<>>) :> Vec_far)

\* embedder.Embed of a list of documents: [embeddings, err]
Embed(docs) ==
  IF \E i \in 1..Len(docs) : docs[i] \notin DOMAIN Registry
  THEN [embeddings |-> <<>>,
        err |-> "fake embedder called with unregistered document"]
  ELSE [embeddings |-> [i \in 1..Len(docs) |-> [embedding |-> Registry[docs[i]]]],
        err |-> ""]

\* ai.embed of the JS plugin for one document: [embeddings, err].  A document
\* of several content parts expands into one embedding per part.
PartRegistry == (TextPart(Text_h) :> Vec_h2) @@ (TextPart(Text_2) :> Vec_2)
JsEmbed(doc) ==
  IF doc \in DOMAIN Registry /\ Len(doc.content) > 1
  THEN [embeddings |->
          [j \in 1..Len(doc.content) |->
             [embedding |-> PartRegistry[doc.content[j]]]],
        err |-> ""]
  ELSE Embed(<<doc>>)

(***************************************************************************)
(* The Qdrant backend, as far as the plugins use it: one collection, its   *)
(* creation options, and its points [id, vector, payload], a payload being *)
(* a mapping from field names to Values.                                   *)
(***************************************************************************)
\* An optional value: <<>> when absent, <<x>> when present.
None == <<>>
Some(x) == <<x>>

ErrNotFound == "Not found: Collection doesn't exist"
ErrBadRequest == "Bad request"
ErrExists == "Conflict: Collection already exists"

\* The filter with no condition, and a filter `field key is the string match`.
NoFilter == [key |-> <<>>, match |-> <<>>]
MatchFilter(key, match) == [key |-> key, match |-> match]
Passes(p, f) ==
  \/ f = NoFilter
  \/ f.key \in DOMAIN p.payload /\ p.payload[f.key] = newStringValue(f.match)

\* The similarity of two vectors: larger is nearer.
Score(q, v) ==
  LET d(i) == (q[i] - v[i]) * (q[i] - v[i])
      RECURSIVE sum(_)
      sum(i) == IF i = 0 THEN 0 ELSE d(i) + sum(i - 1)
  IN  0 - sum(Len(q))

\* pts after the points of batch were upserted, in the order of the batch:
\* a point replaces the stored point of the same id.
RECURSIVE Upserted(_, _)
Upserted(pts, batch) ==
  IF Len(batch) = 0 THEN pts
  ELSE Upserted({p \in pts : p.id # batch[1].id} \cup {batch[1]}, Tail(batch))

\* The n points of S nearest to q, nearest first (the backend breaks a tie
\* in an order of its own).
RECURSIVE Nearest(_, _, _)
Nearest(S, q, n) ==
  IF n = 0 \/ S = {} THEN <<>>
  ELSE LET m == CHOOSE p \in S :
                  \A o \in S : Score(q, o.vector) <= Score(q, p.vector)
       IN  <<m>> \o Nearest(S \ {m}, q, n - 1)

\* The hits of a query req on the points pts: the points that pass the
\* filter and the score threshold, nearest first, at most req.limit of them,
\* each with its score and the payload fields asked for.
QueryHits(pts, req) ==
  LET ok == {p \in pts :
               /\ Passes(p, req.filter)
               /\ (req.score_threshold # None =>
                     Score(req.query, p.vector) >= req.score_threshold[1])}
      top == Nearest(ok, req.query, req.limit)
  IN  [i \in 1..Len(top) |->
         [id |-> top[i].id,
          score |-> Score(req.query, top[i].vector),
          payload |-> [key \in DOMAIN top[i].payload \cap req.with_payload |->
                         top[i].payload[key]]]]

(***************************************************************************)
(* State.                                                                  *)
(***************************************************************************)
VARIABLES
  cvIn,      \* the Go value handed to the converter
  cvOut,     \* the outcome of the conversion: [op, how, err, val]
  jsParams,  \* the QdrantPluginParams the JS plugin was configured with
  goCfg,     \* the Config the Go plugin was initialized with
  exists,    \* backend: whether the collection exists
  schema,    \* backend: the options the collection was created with
  points,    \* backend: the points of the collection
  indexed,   \* the documents indexed since the collection was created,
             \* each with the plugin that indexed it (history)
  call,      \* the last call of a plugin: [adapter, op, docs, query, options]
  trace,     \* the external calls that call made, in order
  ctxs,      \* the context each of them was made under, in that order
  sent,      \* the point batch of its upsert
  request,   \* the request of its query
  hits,      \* the backend's answer to its query
  result,    \* what it returned: [status, err, documents]
  inflight,  \* the indexer calls of the JS plugin that run concurrently:
             \* for each its position, documents, create options and error
  created    \* the number of times the backend created the collection
             \* for one of them (history)

cvars == <<cvIn, cvOut>>
cfgvars == <<jsParams, goCfg>>
backend == <<exists, schema, points>>
callvars == <<call, trace, ctxs, sent, request, hits, result>>
mvars == <<cfgvars, backend, indexed, callvars>>
rvars == <<inflight, created>>
vars == <<cvars, mvars, rvars>>

(***************************************************************************)
(* Configuration and calls.                                                *)
(***************************************************************************)
\* Bounds: the longest document list of an indexer call, the largest
\* result limit a caller asks for, and the longest document list of an
\* indexer call whose caller cancels.
MaxBatch == 2
MaxK == 2
MaxCancelBatch == 1

\* index.mts: "content", "metadata", "_content_type"
CONTENT_PAYLOAD_KEY == <<99, 111, 110, 116, 101, 110, 116>>
METADATA_PAYLOAD_KEY == <<109, 101, 116, 97, 100, 97, 116, 97>>
CONTENT_TYPE_KEY ==
  <<95, 99, 111, 110, 116, 101, 110, 116, 95, 116, 121, 112, 101>>
\* qdrant.go: "_content", "_metadata"
defaultContentKey == <<95>> \o CONTENT_PAYLOAD_KEY
defaultMetadataKey == <<95>> \o METADATA_PAYLOAD_KEY
\* the README's example of a data type key: "_datatype"
Key_datatype == <<95, 100, 97, 116, 97, 116, 121, 112, 101>>

\* The parameters the JS plugin is configured with: the defaults, or every
\* payload key overridden (to the keys the Go plugin writes by default) and
\* explicit options for the creation of the collection.
JsParamsSet ==
  {[contentPayloadKey |-> None, metadataPayloadKey |-> None,
    dataTypePayloadKey |-> None, collectionCreateOptions |-> None],
   [contentPayloadKey |-> Some(defaultContentKey),
    metadataPayloadKey |-> Some(defaultMetadataKey),
    dataTypePayloadKey |-> Some(Key_datatype),
    collectionCreateOptions |->
      Some([vectors |-> [size |-> 2, distance |-> "Dot"]])]}

\* The Config the Go plugin is initialized with: the keys left empty, or set
\* to the keys the JS plugin writes by default.  build tells which of the
\* two copies of the plugin in qdrant.go is running: the current one (lines
\* 1-216) or the older one (lines 218-458).
GoConfigs ==
  {[ContentKey |-> <<>>, MetadataKey |-> <<>>, build |-> "current"],
   [ContentKey |-> CONTENT_PAYLOAD_KEY, MetadataKey |-> METADATA_PAYLOAD_KEY,
    build |-> "current"],
   [ContentKey |-> CONTENT_PAYLOAD_KEY, MetadataKey |-> METADATA_PAYLOAD_KEY,
    build |-> "older"]}

\* x ?? d
OrElse(x, d) == IF x = None THEN d ELSE x[1]

\* The payload keys of the JS indexer and retriever (index.mts 131-133 and
\* 188-190).
contentKey == OrElse(jsParams.contentPayloadKey, CONTENT_PAYLOAD_KEY)
metadataKey == OrElse(jsParams.metadataPayloadKey, METADATA_PAYLOAD_KEY)
dataTypeKey == OrElse(jsParams.dataTypePayloadKey, CONTENT_TYPE_KEY)

\* The payload keys of the docStore that Init builds: the configured keys
\* or their defaults (qdrant.go 46-62); the older Init sets neither field of
\* the docStore (qdrant.go 291-294), which leaves them "".
contentPayloadKey ==
  IF goCfg.build = "older" THEN <<>>
  ELSE IF goCfg.ContentKey = <<>> THEN defaultContentKey ELSE goCfg.ContentKey
metadataPayloadKey ==
  IF goCfg.build = "older" THEN <<>>
  ELSE IF goCfg.MetadataKey = <<>> THEN defaultMetadataKey
  ELSE goCfg.MetadataKey

\* The payload keys Index writes the text and the metadata under: the keys
\* of the docStore (qdrant.go 129-130); the older Index writes under the
\* package constants "_content" and "_metadata" (qdrant.go 362-363).
indexContentKey ==
  IF goCfg.build = "older" THEN defaultContentKey ELSE contentPayloadKey
indexMetadataKey ==
  IF goCfg.build = "older" THEN defaultMetadataKey ELSE metadataPayloadKey

\* The options of a retriever call.  type is "nil" (no options),
\* "RetrieverOptions" or "other" (a value of another type); k, filter and
\* scoreThreshold are optional.
NoOptions ==
  [type |-> "nil", k |-> None, filter |-> None, scoreThreshold |-> None]
Filters == {MatchFilter(CONTENT_PAYLOAD_KEY, Text_h1)}
RetrieverOptionsSet ==
  {NoOptions}
    \cup {[type |-> "RetrieverOptions", k |-> k, filter |-> f,
           scoreThreshold |-> None] :
            k \in {None} \cup {Some(n) : n \in 1..MaxK},
            f \in {None} \cup {Some(x) : x \in Filters}}
    \cup {[type |-> "RetrieverOptions", k |-> Some(MaxK), filter |-> None,
           scoreThreshold |-> Some(0 - 1)]}

RECURSIVE SeqsUpTo(_, _)
SeqsUpTo(S, n) ==
  IF n = 0 THEN {<<>>}
  ELSE LET shorter == SeqsUpTo(S, n - 1)
       IN  shorter \cup {Append(s, x) : s \in shorter, x \in S}

\* A call of a plugin.  cancelAt is when the caller cancels the context it
\* passed: 0 for never, n for just before the n-th external call of the
\* call would be made.
NoCall ==
  [adapter |-> "none", op |-> "none", docs |-> <<>>, query |-> None,
   options |-> NoOptions, cancelAt |-> 0]
IndexCall(a, docs) ==
  [adapter |-> a, op |-> "index", docs |-> docs, query |-> None,
   options |-> NoOptions, cancelAt |-> 0]
RetrieveCall(a, q, o) ==
  [adapter |-> a, op |-> "retrieve", docs |-> <<>>, query |-> Some(q),
   options |-> o, cancelAt |-> 0]

\* The contexts of the external calls of a Go method: the context ctx the
\* caller passed, or context.TODO(), which nobody can cancel.  The JS
\* handlers are given no context.
Ctx_caller == "ctx"
Ctx_TODO == "context.TODO()"
Ctx_none == "none"
\* Whether an external call, the n-th of its method, made under context c
\* is abandoned because the caller cancelled at cancelAt.
Canceled(c, n, cancelAt) == c = Ctx_caller /\ cancelAt # 0 /\ cancelAt <= n
ErrCanceled == "context canceled"

NoResult == [status |-> "none", err |-> "", documents |-> <<>>]
Returned(docs) == [status |-> "ok", err |-> "", documents |-> docs]
Failed(e) == [status |-> "error", err |-> e, documents |-> <<>>]
Panicked(e) == [status |-> "panic", err |-> e, documents |-> <<>>]

\* The state of the plugins and the backend before any call.
MainInit ==
  /\ jsParams \in JsParamsSet
  /\ goCfg \in GoConfigs
  /\ exists = FALSE
  /\ schema = None
  /\ points = {}
  /\ indexed = {}
  /\ call = NoCall
  /\ trace = <<>>
  /\ ctxs = <<>>
  /\ sent = <<>>
  /\ request = None
  /\ hits = <<>>
  /\ result = NoResult
  /\ inflight = <<>>
  /\ created = 0

\* The plugins at rest, while the converter is exercised alone.
MainIdle ==
  /\ jsParams = CHOOSE p \in JsParamsSet : p.contentPayloadKey = None
  /\ goCfg = CHOOSE c \in GoConfigs : c.ContentKey = <<>>
  /\ exists = FALSE
  /\ schema = None
  /\ points = {}
  /\ indexed = {}
  /\ call = NoCall
  /\ trace = <<>>
  /\ ctxs = <<>>
  /\ sent = <<>>
  /\ request = None
  /\ hits = <<>>
  /\ result = NoResult
  /\ inflight = <<>>
  /\ created = 0

\* The converter at rest, while the plugins are exercised.
ConvIdle ==
  /\ cvIn = GoNil
  /\ cvOut = [op |-> "none", how |-> "none", err |-> "", val |-> NilValue]

(***************************************************************************)
(* The inputs of the converter: metadata trees as in the usage example of  *)
(* the converter's file, grown one level at a time around a leaf.          *)
(***************************************************************************)
Keys == {KeyA, KeyE, KeyBad}

Leaves ==
  {GoNil, GoBool(TRUE), GoFunc,
   GoInt("int", <<42, 0, 0, 0>>),
   GoInt("int8", <<255>>),
   GoInt("int16", <<7>>),
   GoInt("int32", <<65535, 65535>>),
   GoInt("int64", <<0, 0, 0, 32768>>),
   GoInt("uint", <<1, 0, 0, 0>>),
   GoInt("uint8", <<200>>),
   GoInt("uint16", <<65535>>),
   GoInt("uint32", <<65535, 65535>>),
   GoInt("uint64", <<65535, 65535, 65535, 65535>>),
   GoFloat("float32", 3), GoFloat("float64", 4),
   GoString(<<>>), GoString(KeyE), GoString(<<195>>),
   GoBytes(<<255>>), GoBytes(<<119, 111, 114, 108, 100>>)}

\* The values put beside the growing tree: a good one and a bad one.
Siblings == {GoString(KeyA), GoString(KeyBad)}

RECURSIVE Depth(_)
Depth(t) ==
  CASE t.k = "[]any" ->
         IF Len(t.v) = 0 THEN 1
         ELSE 1 + (CHOOSE d \in {Depth(t.v[i]) : i \in 1..Len(t.v)} :
                     \A i \in 1..Len(t.v) : Depth(t.v[i]) <= d)
    [] t.k = "map[string]any" ->
         IF DOMAIN t.v = {} THEN 1
         ELSE 1 + (CHOOSE d \in {Depth(t.v[key]) : key \in DOMAIN t.v} :
                     \A key \in DOMAIN t.v : Depth(t.v[key]) <= d)
    [] OTHER -> 0

NoOut == [op |-> "none", how |-> "none", err |-> "", val |-> NilValue]

\* What the caller of a conversion with result r may see: the value, or one
\* of the errors.  how tells the way the outcome reaches the caller: newValue
\* returns its error, newValueMap panics with it.
Outcomes(op, r) ==
  IF r.errs = {}
  THEN {[op |-> op, how |-> "return", err |-> "", val |-> r.val]}
  ELSE {[op |-> op, how |-> IF op = "newValueMap" THEN "panic" ELSE "return",
         err |-> e, val |-> NilValue] : e \in r.errs}

ConvInit ==
  /\ cvIn \in Leaves
  /\ cvOut = NoOut
  /\ MainIdle

\* The caller nests the tree in a slice, alone or beside another value.
CvList ==
  /\ cvOut.op = "none"
  /\ Depth(cvIn) < MaxDepth
  /\ \/ cvIn' = GoList(<<cvIn>>)
     \/ \E s \in Siblings : cvIn' = GoList(<<s, cvIn>>)
     \/ \E s \in Siblings : cvIn' = GoList(<<cvIn, s>>)
  /\ UNCHANGED <<cvOut, mvars, rvars>>

\* The caller nests the tree in a map, alone or beside another entry.
CvMap ==
  /\ cvOut.op = "none"
  /\ Depth(cvIn) < MaxDepth
  /\ \/ \E key \in Keys : cvIn' = GoMap(key :> cvIn)
     \/ \E key \in Keys : \E k2 \in Keys \ {key} : \E s \in Siblings :
          cvIn' = GoMap((key :> cvIn) @@ (k2 :> s))
  /\ UNCHANGED <<cvOut, mvars, rvars>>

\* newValue(cvIn)
CvNewValue ==
  /\ cvOut.op = "none"
  /\ cvOut' \in Outcomes("newValue", newValue(cvIn))
  /\ UNCHANGED <<cvIn, mvars, rvars>>

\* newValueMap(cvIn), for a cvIn that is a map[string]any
CvNewValueMap ==
  /\ cvOut.op = "none"
  /\ cvIn.k = "map[string]any"
  /\ cvOut' \in Outcomes("newValueMap", newValueMap(cvIn.v))
  /\ UNCHANGED <<cvIn, mvars, rvars>>

ConvNext == CvList \/ CvMap \/ CvNewValue \/ CvNewValueMap

SpecConv == ConvInit /\ [][ConvNext]_vars


(***************************************************************************)
(* The JS plugin (index.mts).                                              *)
(***************************************************************************)
ErrNoCollection == "Collection does not exist. Index some documents first."
Distance_Cosine == "Cosine"
\* the default of k in QdrantRetrieverOptionsSchema
DefaultK == 10

\* A helper that probes the embedder whether or not create options are
\* configured.
createQdrantCollectionProbing ==
  LET e == Embed(<<DocumentFromText(Text_SOME_TEXT, <<>>)>>)
  IN  [trace |-> <<"embed", "createCollection">>, err |-> "",
       schema |->
         IF jsParams.collectionCreateOptions = None
         THEN Some([vectors |->
                      [size |-> Len(e.embeddings[1].embedding),
                       distance |-> Distance_Cosine]])
         ELSE jsParams.collectionCreateOptions]

\* createQdrantCollection, called when the collection does not exist:
\* [trace, err, schema], schema being the options the collection is created
\* with.
createQdrantCollection ==
  IF jsParams.collectionCreateOptions = None
  THEN LET e == Embed(<<DocumentFromText(Text_SOME_TEXT, <<>>)>>)
       IN  IF e.err # ""
           THEN [trace |-> <<"embed">>, err |-> e.err, schema |-> None]
           ELSE [trace |-> <<"embed", "createCollection">>, err |-> "",
                 schema |->
                   Some([vectors |->
                           [size |-> Len(e.embeddings[1].embedding),
                            distance |-> Distance_Cosine]])]
  ELSE [trace |-> <<"createCollection">>, err |-> "",
        schema |-> jsParams.collectionCreateOptions]

\* ensureCollection(params, createCollection): [trace, err, exists, schema],
\* exists and schema being the collection's after the call.
ensureCollection(createCollection) ==
  IF exists
  THEN [trace |-> <<"collectionExists">>, err |-> "",
        exists |-> TRUE, schema |-> schema]
  ELSE IF createCollection
  THEN LET c == createQdrantCollection
       IN  [trace |-> <<"collectionExists">> \o c.trace, err |-> c.err,
            exists |-> c.err = "", schema |-> c.schema]
  ELSE [trace |-> <<"collectionExists">>, err |-> ErrNoCollection,
        exists |-> FALSE, schema |-> schema]

\* Document.getEmbeddingDocuments of genkit: the document itself for a
\* single embedding, and for several embeddings one document per embedding,
\* the part that was embedded with the metadata of the whole.
getEmbeddingDocuments(doc, embeddingArr) ==
  IF Len(embeddingArr) = 1 THEN <<doc>>
  ELSE [j \in 1..Len(embeddingArr) |->
          [content |-> <<doc.content[j]>>, metadata |-> doc.metadata]]

\* A JSON value of the metadata as the backend stores it.
JSONValue(v) ==
  IF v.k = "string" THEN newStringValue(v.v) ELSE newIntegerValue(v.v)

\* The payload of the point of an embedding document.  A key computed
\* later in the object literal replaces an equal key computed earlier, and
\* a field whose value is undefined is not sent.
JsPayload(embeddingDoc) ==
  LET data == JoinText(embeddingDoc.content)
      meta == MetaMap(embeddingDoc)
      dataType == IF data # <<>> THEN Some(Text_text) ELSE None
      typeField ==
        IF dataType = None THEN <<>>
        ELSE dataTypeKey :> newStringValue(dataType[1])
  IN  typeField
        @@ (metadataKey :>
              newStructValue([key \in DOMAIN meta |-> JSONValue(meta[key])]))
        @@ (contentKey :> newStringValue(data))

\* The points of the documents docs, embs[i] being the embeddings of docs[i].
RECURSIVE JsPoints(_, _)
JsPoints(docs, embs) ==
  IF Len(docs) = 0 THEN <<>>
  ELSE LET doc == docs[1]
           embeddingArr == embs[1]
           embeddingDocs == getEmbeddingDocuments(doc, embeddingArr)
       IN  [j \in 1..Len(embeddingArr) |->
              [id |-> uuidv5(embeddingDocs[j]),
               vector |-> embeddingArr[j].embedding,
               payload |-> JsPayload(embeddingDocs[j])]]
             \o JsPoints(Tail(docs), Tail(embs))

\* What client.upsert may answer for a batch, the collection being ex, sch,
\* pts: a set of [err, points].  The backend's answer to an empty batch is
\* not known here: it may accept or refuse it.
UpsertOutcomes(ex, sch, pts, batch) ==
  IF ~ex THEN {[err |-> ErrNotFound, points |-> pts]}
  ELSE IF Len(batch) = 0
  THEN {[err |-> "", points |-> pts], [err |-> ErrBadRequest, points |-> pts]}
  ELSE IF \E i \in 1..Len(batch) : Len(batch[i].vector) # sch[1].vectors.size
  THEN {[err |-> ErrBadRequest, points |-> pts]}
  ELSE {[err |-> "", points |-> Upserted(pts, batch)]}

\* What a query may answer, the collection being ex, pts: a set of
\* [err, hits].  The backend's answer to a limit of 0 is not known here: it
\* may return no hit or refuse the request.
QueryOutcomes(ex, pts, req) ==
  IF ~ex THEN {[err |-> ErrNotFound, hits |-> <<>>]}
  ELSE IF req.limit = 0
  THEN {[err |-> "", hits |-> <<>>], [err |-> ErrBadRequest, hits |-> <<>>]}
  ELSE {[err |-> "", hits |-> QueryHits(pts, req)]}

DocsOf(a, docs) == {[adapter |-> a, doc |-> docs[i]] : i \in 1..Len(docs)}

\* The orders in which n concurrent calls may complete: the order they were
\* issued in, and the reverse.
CompletionOrders(n) == {[i \in 1..n |-> i], [i \in 1..n |-> n + 1 - i]}

\* An array that keeps results in the order they arrive in: what
\* re-association by position rules out.
PromiseAllByArrival(results, order) ==
  [k \in 1..Len(order) |-> results[order[k]]]

\* Promise.all over calls that complete in the given order: every result is
\* stored at the position of its own call.
RECURSIVE Settle(_, _, _)
Settle(arr, results, order) ==
  IF Len(order) = 0 THEN arr
  ELSE Settle([arr EXCEPT ![order[1]] = results[order[1]]], results, Tail(order))
PromiseAll(results, order) ==
  LET settled == Settle([i \in 1..Len(results) |-> <<>>], results, order)
  IN  [i \in 1..Len(results) |-> settled[i]]

\* The embedding documents of docs, in the order of the points.
RECURSIVE EmbeddingDocs(_, _)
EmbeddingDocs(docs, embs) ==
  IF Len(docs) = 0 THEN <<>>
  ELSE getEmbeddingDocuments(docs[1], embs[1])
         \o EmbeddingDocs(Tail(docs), Tail(embs))

\* A handler that upserts the points of each document as soon as they are
\* built.
JsIndexCallsPipelined(docs) ==
  IF Len(docs) = 0 THEN <<"upsert">>
  ELSE [i \in 1..2 * Len(docs) |-> IF i % 2 = 1 THEN "embed" ELSE "upsert"]

\* The external calls of the indexer's handler when no embedding fails: one
\* embedding call per document, then the upsert.
JsIndexCalls(docs) == [i \in 1..Len(docs) |-> "embed"] \o <<"upsert">>

\* The indexer's handler: async (docs, options) => ..., the embedding calls
\* completing in the given order.
JsIndex(docs, order) ==
  LET ens == ensureCollection(TRUE)
      calls == [i \in 1..Len(docs) |-> JsEmbed(docs[i])]
      embedCalls == [i \in 1..Len(docs) |-> "embed"]
      failed == {k \in 1..Len(order) : calls[order[k]].err # ""}
      firstFailed == order[CHOOSE k \in failed : \A l \in failed : k <= l]
      embeddings ==
        PromiseAll([i \in 1..Len(docs) |-> calls[i].embeddings], order)
      batch == JsPoints(docs, embeddings)
  IN  /\ call.op = "none"
      /\ call' = IndexCall("js", docs)
      /\ request' = None
      /\ hits' = <<>>
      /\ exists' = ens.exists
      /\ schema' = ens.schema
      /\ IF ens.err # ""
         THEN /\ trace' = ens.trace
              /\ sent' = <<>>
              /\ result' = Failed(ens.err)
              /\ UNCHANGED <<points, indexed>>
         ELSE IF failed # {}
         THEN /\ trace' = ens.trace \o embedCalls
              /\ sent' = <<>>
              /\ result' = Failed(calls[firstFailed].err)
              /\ UNCHANGED <<points, indexed>>
         ELSE \E o \in UpsertOutcomes(ens.exists, ens.schema, points, batch) :
                /\ trace' = ens.trace \o JsIndexCalls(docs)
                /\ sent' = batch
                /\ points' = o.points
                /\ result' = IF o.err = "" THEN Returned(<<>>) ELSE Failed(o.err)
                /\ indexed' =
                     IF o.err = ""
                     THEN indexed \cup DocsOf("js", EmbeddingDocs(docs, embeddings))
                     ELSE indexed
      /\ ctxs' = [i \in 1..Len(trace') |-> Ctx_none]
      /\ UNCHANGED <<cvars, rvars, cfgvars>>

\* The limit, filter and score threshold of the query, from the options.
JsQuery(vector, options) ==
  [query |-> vector,
   limit |-> OrElse(options.k, DefaultK),
   filter |-> OrElse(options.filter, NoFilter),
   score_threshold |-> options.scoreThreshold,
   with_payload |-> {contentKey, metadataKey, dataTypeKey}]

\* The document the retriever makes of a hit: results.map((result) => ...)
JsDocument(hit) ==
  LET stored ==
        IF metadataKey \in DOMAIN hit.payload
             /\ hit.payload[metadataKey].k = "StructValue"
        THEN hit.payload[metadataKey].v
        ELSE <<>>
  IN  [content |->
         IF contentKey \in DOMAIN hit.payload
         THEN hit.payload[contentKey].v ELSE <<>>,
       dataType |->
         IF dataTypeKey \in DOMAIN hit.payload
         THEN hit.payload[dataTypeKey].v ELSE Text_text,
       metadata |->
         (SimilarityScoreKey :> newDoubleValue(hit.score)) @@ stored]

\* The retriever's handler: async (content, options) => ...
JsRetrieve(content, options) ==
  LET ens == ensureCollection(FALSE)
      e == JsEmbed(content)
      req == JsQuery(e.embeddings[1].embedding, options)
  IN  /\ call.op = "none"
      /\ call' = RetrieveCall("js", content, options)
      /\ sent' = <<>>
      /\ IF ens.err # ""
         THEN /\ trace' = ens.trace
              /\ request' = None
              /\ hits' = <<>>
              /\ result' = Failed(ens.err)
         ELSE IF e.err # ""
         THEN /\ trace' = ens.trace \o <<"embed">>
              /\ request' = None
              /\ hits' = <<>>
              /\ result' = Failed(e.err)
         ELSE \E o \in QueryOutcomes(ens.exists, points, req) :
                /\ trace' = ens.trace \o <<"embed", "query">>
                /\ request' = Some(req)
                /\ hits' = o.hits
                /\ result' =
                     IF o.err # "" THEN Failed(o.err)
                     ELSE Returned([i \in 1..Len(o.hits) |->
                                      JsDocument(o.hits[i])])
      /\ ctxs' = [i \in 1..Len(trace') |-> Ctx_none]
      /\ UNCHANGED <<cvars, rvars, cfgvars, backend, indexed>>

\* deleteQdrantCollection(params)
JsDeleteCollection ==
  /\ call.op = "none"
  /\ exists
  /\ exists' = FALSE
  /\ schema' = None
  /\ points' = {}
  /\ indexed' = {}
  /\ call' = [NoCall EXCEPT !.adapter = "js", !.op = "delete"]
  /\ trace' = <<"deleteCollection">>
  /\ ctxs' = <<Ctx_none>>
  /\ sent' = <<>>
  /\ request' = None
  /\ hits' = <<>>
  /\ result' = Returned(<<>>)
  /\ UNCHANGED <<cvars, rvars, cfgvars>>

(***************************************************************************)
(* The Go plugin (qdrant.go).                                              *)
(***************************************************************************)
ErrIndexEmbedding == "qdrant index embedding failed"
ErrIndexUpsert == "qdrant index upsert failed"
ErrOptionsType == "qdrant.Retrieve options have the wrong type"
ErrRetrieveEmbedding == "qdrant retrieve embedding failed"
ErrNoText == "qdrant retrieve failed to fetch original document text"

\* The payload of the point of a document: [val, errs] of NewValueMap.
GoPayload(doc) ==
  newValueMap((indexMetadataKey :> GoMap(MetaMap(doc)))
                @@ (indexContentKey :> GoString(JoinText(doc.content))))

\* The embedder's answer to the Go plugin: [embeddings, err].  The older
\* Init leaves the docStore's embedder nil (qdrant.go 291-294), so that
\* every embedding fails.
ErrNoEmbedder == "nil embedder"
GoEmbed(docs) ==
  IF goCfg.build = "older"
  THEN [embeddings |-> <<>>, err |-> ErrNoEmbedder]
  ELSE Embed(docs)
\* What a call returns whose embedding failed: the wrapped error; with no
\* embedder at all the call through the nil embedder may panic instead.
EmbedFailure(wrapped) ==
  IF goCfg.build = "older"
  THEN {Failed(wrapped), Panicked(ErrNoEmbedder)}
  ELSE {Failed(wrapped)}

\* The point of docs[i], vals being the embedder's response.
GoPoint(docs, vals, i) ==
  [id |-> generatePointId(docs[i]).id,
   vector |-> vals.embeddings[i].embedding,
   payload |-> GoPayload(docs[i]).val]

\* docStore.Index, the caller cancelling its context at cancelAt.  The
\* embedder call is the first external call and the upsert the second, both
\* made under the caller's context.
GoIndex(docs, cancelAt) ==
  LET vals == GoEmbed(docs)
      bad == {i \in 1..Len(docs) :
                generatePointId(docs[i]).err # "" \/ GoPayload(docs[i]).errs # {}}
      first == CHOOSE i \in bad : \A j \in bad : i <= j
      batch == [i \in 1..Len(docs) |-> GoPoint(docs, vals, i)]
  IN  /\ call.op = "none"
      /\ call' = [IndexCall("go", docs) EXCEPT !.cancelAt = cancelAt]
      /\ request' = None
      /\ hits' = <<>>
      /\ IF Len(docs) = 0
         THEN /\ trace' = <<>>
              /\ sent' = <<>>
              /\ result' = Returned(<<>>)
              /\ UNCHANGED <<points, indexed>>
         ELSE IF Canceled(Ctx_caller, 1, cancelAt) \/ vals.err # ""
         THEN /\ trace' = <<"embed">>
              /\ sent' = <<>>
              /\ result' \in EmbedFailure(ErrIndexEmbedding)
              /\ UNCHANGED <<points, indexed>>
         ELSE IF bad # {}
         THEN /\ trace' = <<"embed">>
              /\ sent' = <<>>
              /\ IF generatePointId(docs[first]).err # ""
                 THEN result' = Failed(generatePointId(docs[first]).err)
                 ELSE \E e \in GoPayload(docs[first]).errs :
                        result' = Panicked(e)
              /\ UNCHANGED <<points, indexed>>
         ELSE IF Canceled(Ctx_caller, 2, cancelAt)
         THEN /\ trace' = <<"embed", "upsert">>
              /\ sent' = batch
              /\ result' = Failed(ErrIndexUpsert)
              /\ UNCHANGED <<points, indexed>>
         ELSE \E o \in UpsertOutcomes(exists, schema, points, batch) :
                /\ trace' = <<"embed", "upsert">>
                /\ sent' = batch
                /\ points' = o.points
                /\ result' =
                     IF o.err = "" THEN Returned(<<>>) ELSE Failed(ErrIndexUpsert)
                /\ indexed' =
                     IF o.err = "" THEN indexed \cup DocsOf("go", docs)
                     ELSE indexed
      /\ ctxs' = [i \in 1..Len(trace') |-> Ctx_caller]
      /\ UNCHANGED <<cvars, rvars, cfgvars, exists, schema>>

\* The limit and filter of the query, from the options: limit and filter
\* keep their zero values when the request has no options.
GoQuery(vector, options) ==
  [query |-> vector,
   limit |-> IF options.type = "nil" THEN 0 ELSE OrElse(options.k, 0),
   filter |-> IF options.type = "nil" THEN NoFilter
              ELSE OrElse(options.filter, NoFilter),
   score_threshold |-> None,
   with_payload |-> {contentPayloadKey, metadataPayloadKey}]

\* result.Payload[key].GetStringValue(): "" for a missing field and for a
\* value that is no string.
GetStringValue(payload, key) ==
  IF key \in DOMAIN payload /\ payload[key].k = "StringValue"
  THEN payload[key].v ELSE <<>>

\* result.Payload[key].GetStructValue().Fields: empty for a missing field
\* and for a value that is no struct.
GetStructFields(payload, key) ==
  IF key \in DOMAIN payload /\ payload[key].k = "StructValue"
  THEN payload[key].v ELSE <<>>

\* The document the retriever makes of a hit: ai.DocumentFromText(content,
\* metadata).
GoDocument(hit) ==
  [content |-> GetStringValue(hit.payload, contentPayloadKey),
   dataType |-> Text_text,
   metadata |-> GetStructFields(hit.payload, metadataPayloadKey)]

\* The context docStore.Retrieve makes its query under.
queryContext == Ctx_TODO

\* The contexts of the external calls of a Retrieve whose calls were tr.
RetrieveContexts(tr) ==
  [i \in 1..Len(tr) |-> IF tr[i] = "query" THEN queryContext ELSE Ctx_caller]

\* A Retrieve that embeds the query before it looks at the type of the
\* options: what failing fast on the options rules out.
GoRetrieveEmbedFirst(query, options, cancelAt) ==
  LET vectors == GoEmbed(<<query>>)
      req == GoQuery(vectors.embeddings[1].embedding, options)
  IN  /\ call.op = "none"
      /\ call' = [RetrieveCall("go", query, options) EXCEPT !.cancelAt = cancelAt]
      /\ sent' = <<>>
      /\ IF Canceled(Ctx_caller, 1, cancelAt) \/ vectors.err # ""
         THEN /\ trace' = <<"embed">>
              /\ request' = None
              /\ hits' = <<>>
              /\ result' \in EmbedFailure(ErrRetrieveEmbedding)
         ELSE IF options.type = "other"
         THEN /\ trace' = <<"embed">>
              /\ request' = None
              /\ hits' = <<>>
              /\ result' = Failed(ErrOptionsType)
         ELSE IF Canceled(queryContext, 2, cancelAt)
         THEN /\ trace' = <<"embed", "query">>
              /\ request' = Some(req)
              /\ hits' = <<>>
              /\ result' = Failed(ErrCanceled)
         ELSE \E o \in QueryOutcomes(exists, points, req) :
                /\ trace' = <<"embed", "query">>
                /\ request' = Some(req)
                /\ hits' = o.hits
                /\ result' =
                     IF o.err # "" THEN Failed(o.err)
                     ELSE IF \E i \in 1..Len(o.hits) :
                               GoDocument(o.hits[i]).content = <<>>
                     THEN Failed(ErrNoText)
                     ELSE Returned([i \in 1..Len(o.hits) |->
                                      GoDocument(o.hits[i])])
      /\ ctxs' = RetrieveContexts(trace')
      /\ UNCHANGED <<cvars, rvars, cfgvars, backend, indexed>>

\* docStore.Retrieve, the caller cancelling its context at cancelAt.  The
\* embedder call is the first external call, made under the caller's
\* context; the query is the second, made under queryContext.
GoRetrieve(query, options, cancelAt) ==
  LET vectors == GoEmbed(<<query>>)
      req == GoQuery(vectors.embeddings[1].embedding, options)
  IN  /\ call.op = "none"
      /\ call' = [RetrieveCall("go", query, options) EXCEPT !.cancelAt = cancelAt]
      /\ sent' = <<>>
      /\ IF options.type = "other"
         THEN /\ trace' = <<>>
              /\ request' = None
              /\ hits' = <<>>
              /\ result' = Failed(ErrOptionsType)
         ELSE IF Canceled(Ctx_caller, 1, cancelAt) \/ vectors.err # ""
         THEN /\ trace' = <<"embed">>
              /\ request' = None
              /\ hits' = <<>>
              /\ result' \in EmbedFailure(ErrRetrieveEmbedding)
         ELSE IF Canceled(queryContext, 2, cancelAt)
         THEN /\ trace' = <<"embed", "query">>
              /\ request' = Some(req)
              /\ hits' = <<>>
              /\ result' = Failed(ErrCanceled)
         ELSE \E o \in QueryOutcomes(exists, points, req) :
                /\ trace' = <<"embed", "query">>
                /\ request' = Some(req)
                /\ hits' = o.hits
                /\ result' =
                     IF o.err # "" THEN Failed(o.err)
                     ELSE IF \E i \in 1..Len(o.hits) :
                               GoDocument(o.hits[i]).content = <<>>
                     THEN Failed(ErrNoText)
                     ELSE Returned([i \in 1..Len(o.hits) |->
                                      GoDocument(o.hits[i])])
      /\ ctxs' = RetrieveContexts(trace')
      /\ UNCHANGED <<cvars, rvars, cfgvars, backend, indexed>>

(***************************************************************************)
(* The specification of the plugins.                                       *)
(***************************************************************************)
\* The caller has the result; what the call left behind is the backend's
\* state alone.
Return ==
  /\ call.op # "none"
  /\ call' = NoCall
  /\ trace' = <<>>
  /\ ctxs' = <<>>
  /\ sent' = <<>>
  /\ request' = None
  /\ hits' = <<>>
  /\ result' = NoResult
  /\ UNCHANGED <<cvars, rvars, cfgvars, backend, indexed>>

Queries == {Doc_hello1, Doc_unknown}
JsOptionsSet == {o \in RetrieverOptionsSet : o.type # "other"}
GoOptionsSet ==
  {o \in RetrieverOptionsSet : o.scoreThreshold = None}
    \cup {[NoOptions EXCEPT !.type = "other"]}

\* When the caller of a Go method cancels: never, or before its first or
\* its second external call.  Cancellation is explored for the index calls
\* of at most MaxCancelBatch documents and the retrieve calls without
\* options.
CancelPoints == {0, 1, 2}

Init == ConvIdle /\ MainInit

Next ==
  \/ \E docs \in SeqsUpTo(Docs, MaxBatch) \cup UnknownBatches :
       \E order \in CompletionOrders(Len(docs)) : JsIndex(docs, order)
  \/ \E q \in Queries, o \in JsOptionsSet : JsRetrieve(q, o)
  \/ JsDeleteCollection
  \/ \E docs \in SeqsUpTo(Docs, MaxBatch) \cup UnknownBatches \cup FailingBatches :
       \E c \in IF Len(docs) <= MaxCancelBatch THEN CancelPoints ELSE {0} :
         GoIndex(docs, c)
  \/ \E q \in Queries, o \in GoOptionsSet :
       \E c \in IF o = NoOptions THEN CancelPoints ELSE {0} :
         GoRetrieve(q, o, c)
  \/ Return

Spec == Init /\ [][Next]_vars
(***************************************************************************)
(* Indexer calls of the JS plugin that run concurrently.  A handler gives  *)
(* way to the others at each await: a step is one external call of one     *)
(* handler with what the handler does with its answer.                     *)
(***************************************************************************)
\* Bound: the number of indexer calls in flight.
NumCalls == 2
Procs == 1..NumCalls

\* The document lists the concurrent calls index.
RaceBatches == {<<Doc_hello1>>, <<Doc_empty>>, <<Doc_unknown>>}

\* A handler about to call ensureCollection, and one that ended with err
\* ("" when it returned).
Started(docs) == [pc |-> "ensure", docs |-> docs, options |-> None, err |-> ""]
Ended(c, err) == [c EXCEPT !.pc = "done", !.err = err]

\* What client.createCollection answers when the collection is ex: the
\* backend refuses to create a collection that exists.
CreateOutcome(ex) == IF ex THEN ErrExists ELSE ""

RaceInit ==
  /\ ConvIdle
  /\ jsParams \in JsParamsSet
  /\ goCfg = CHOOSE c \in GoConfigs : c.ContentKey = <<>>
  /\ exists = FALSE
  /\ schema = None
  /\ points = {}
  /\ indexed = {}
  /\ call = NoCall
  /\ trace = <<>>
  /\ ctxs = <<>>
  /\ sent = <<>>
  /\ request = None
  /\ hits = <<>>
  /\ result = NoResult
  /\ inflight \in [Procs -> {Started(docs) : docs \in RaceBatches}]
  /\ created = 0

\* ensureCollection: await client.collectionExists(collectionName); then,
\* in createQdrantCollection, the choice between the configured create
\* options and the probe.
RaceExists(p) ==
  LET c == inflight[p]
  IN  /\ c.pc = "ensure"
      /\ inflight' =
           [inflight EXCEPT ![p] =
              IF exists THEN [c EXCEPT !.pc = "embed"]
              ELSE IF jsParams.collectionCreateOptions # None
              THEN [c EXCEPT !.pc = "create",
                             !.options = jsParams.collectionCreateOptions]
              ELSE [c EXCEPT !.pc = "probe"]]
      /\ UNCHANGED <<cvars, mvars, created>>

\* createQdrantCollection: await ai.embed of the probe text
RaceProbe(p) ==
  LET c == inflight[p]
      e == Embed(<<DocumentFromText(Text_SOME_TEXT, <<>>)>>)
  IN  /\ c.pc = "probe"
      /\ inflight' =
           [inflight EXCEPT ![p] =
              IF e.err # "" THEN Ended(c, e.err)
              ELSE [c EXCEPT !.pc = "create",
                             !.options =
                               Some([vectors |->
                                       [size |-> Len(e.embeddings[1].embedding),
                                        distance |-> Distance_Cosine]])]]
      /\ UNCHANGED <<cvars, mvars, created>>

\* createQdrantCollection: await client.createCollection(collectionName,
\* collectionCreateOptions)
RaceCreate(p) ==
  LET c == inflight[p]
      err == CreateOutcome(exists)
  IN  /\ c.pc = "create"
      /\ IF err # ""
         THEN /\ inflight' = [inflight EXCEPT ![p] = Ended(c, err)]
              /\ UNCHANGED <<exists, schema, created>>
         ELSE /\ inflight' = [inflight EXCEPT ![p] = [c EXCEPT !.pc = "embed"]]
              /\ exists' = TRUE
              /\ schema' = c.options
              /\ created' = created + 1
      /\ UNCHANGED <<cvars, cfgvars, points, indexed, callvars>>

\* the handler: await Promise.all of the embedding calls
RaceEmbed(p) ==
  LET c == inflight[p]
      failed == {i \in 1..Len(c.docs) : JsEmbed(c.docs[i]).err # ""}
  IN  /\ c.pc = "embed"
      /\ inflight' =
           [inflight EXCEPT ![p] =
              IF failed # {}
              THEN Ended(c, JsEmbed(c.docs[CHOOSE i \in failed : TRUE]).err)
              ELSE [c EXCEPT !.pc = "upsert"]]
      /\ UNCHANGED <<cvars, mvars, created>>

\* the handler: await client.upsert(collectionName, {points})
RaceUpsert(p) ==
  LET c == inflight[p]
      batch == JsPoints(c.docs, [i \in 1..Len(c.docs) |->
                                   JsEmbed(c.docs[i]).embeddings])
  IN  /\ c.pc = "upsert"
      /\ \E o \in UpsertOutcomes(exists, schema, points, batch) :
           /\ points' = o.points
           /\ inflight' = [inflight EXCEPT ![p] = Ended(c, o.err)]
      /\ UNCHANGED <<cvars, cfgvars, exists, schema, indexed, callvars, created>>

RaceNext ==
  \E p \in Procs :
    \/ RaceExists(p)
    \/ RaceProbe(p)
    \/ RaceCreate(p)
    \/ RaceEmbed(p)
    \/ RaceUpsert(p)

SpecRace == RaceInit /\ [][RaceNext]_vars


(***************************************************************************)
(* Properties of the converter (checked under SpecConv).                   *)
(***************************************************************************)
\* The integer types the converter's table lists.
TableIntTypes == {"int", "int32", "int64", "uint", "uint32", "uint64"}

\* t is built only from null, bool, integers of the types in ints, floats,
\* valid UTF-8 strings, byte sequences, and maps (with valid UTF-8 keys) and
\* lists of such values.
RECURSIVE BuiltOnlyFrom(_, _)
BuiltOnlyFrom(t, ints) ==
  CASE t.k \in {"nil", "bool", "[]byte"} \cup FloatTypes -> TRUE
    [] t.k \in IntTypes -> t.k \in ints
    [] t.k = "string" -> ValidString(t.v)
    [] t.k = "map[string]any" ->
         \A key \in DOMAIN t.v :
           ValidString(key) /\ BuiltOnlyFrom(t.v[key], ints)
    [] t.k = "[]any" -> \A i \in 1..Len(t.v) : BuiltOnlyFrom(t.v[i], ints)
    [] OTHER -> FALSE

\* The value of a character of the base64 alphabet.
b64Index(c) ==
  IF c >= 65 /\ c <= 90 THEN c - 65
  ELSE IF c >= 97 /\ c <= 122 THEN c - 97 + 26
  ELSE IF c >= 48 /\ c <= 57 THEN c - 48 + 52
  ELSE IF c = 43 THEN 62
  ELSE 63

\* The bytes a padded base64 text stands for.
RECURSIVE DecodeString(_)
DecodeString(s) ==
  IF Len(s) < 4 THEN <<>>
  ELSE LET a == b64Index(s[1])
           b == b64Index(s[2])
           c == b64Index(s[3])
           d == b64Index(s[4])
           b1 == <<a * 4 + b \div 16>>
           b2 == IF s[3] = b64Pad THEN <<>> ELSE <<(b % 16) * 16 + c \div 4>>
           b3 == IF s[4] = b64Pad THEN <<>> ELSE <<(c % 4) * 64 + d>>
       IN  b1 \o b2 \o b3 \o DecodeString(SubSeq(s, 5, Len(s)))

\* out is the typed tree of the same shape as t: the same keys in every
\* map, the same length and order in every list, and every leaf of the kind
\* the conversion table gives.
RECURSIVE SameShape(_, _)
SameShape(t, out) ==
  CASE t.k = "nil" -> out.k = "NullValue"
    [] t.k = "bool" -> out.k = "BoolValue" /\ out.v = t.v
    [] t.k \in IntTypes -> out.k = "IntegerValue"
    [] t.k \in FloatTypes -> out.k = "DoubleValue" /\ out.v = t.v
    [] t.k = "string" -> out.k = "StringValue" /\ out.v = t.v
    [] t.k = "[]byte" ->
         /\ out.k = "StringValue"
         /\ Len(out.v) % 4 = 0
         /\ DecodeString(out.v) = t.v
    [] t.k = "map[string]any" ->
         /\ out.k = "StructValue"
         /\ DOMAIN out.v = DOMAIN t.v
         /\ \A key \in DOMAIN t.v : SameShape(t.v[key], out.v[key])
    [] t.k = "[]any" ->
         /\ out.k = "ListValue"
         /\ Len(out.v) = Len(t.v)
         /\ \A i \in 1..Len(t.v) : SameShape(t.v[i], out.v[i])
    [] OTHER -> FALSE

\* The tree a conversion returned: the map of newValueMap read as a struct.
Converted ==
  IF cvOut.op = "newValueMap" THEN newStructValue(cvOut.val) ELSE cvOut.val

RECURSIVE HasInvalidUTF8(_)
HasInvalidUTF8(t) ==
  CASE t.k = "string" -> ~ValidString(t.v)
    [] t.k = "map[string]any" ->
         \E key \in DOMAIN t.v :
           ~ValidString(key) \/ HasInvalidUTF8(t.v[key])
    [] t.k = "[]any" -> \E i \in 1..Len(t.v) : HasInvalidUTF8(t.v[i])
    [] OTHER -> FALSE

\* C10: converting a metadata map fails and returns no payload whenever a
\* string value or a map key at any depth, the keys of the top-level map
\* included, is not valid UTF-8.
C10_InvalidUTF8Fails ==
  (cvOut.op = "newValueMap" /\ HasInvalidUTF8(cvIn)) =>
    (cvOut.err # "" /\ cvOut.val = NilValue)


\* Some value of t, at any depth, has a type the converter has no case for.
RECURSIVE HasUnsupported(_)
HasUnsupported(t) ==
  CASE t.k \in {"nil", "bool", "string", "[]byte"} \cup TableIntTypes
         \cup FloatTypes -> FALSE
    [] t.k = "map[string]any" ->
         \E key \in DOMAIN t.v : HasUnsupported(t.v[key])
    [] t.k = "[]any" -> \E i \in 1..Len(t.v) : HasUnsupported(t.v[i])
    [] OTHER -> TRUE

\* C11: when a value of an unsupported type occurs anywhere in the tree (and
\* nothing else is wrong with the tree), the conversion fails with the
\* 'invalid type' error, which is returned to the caller, and no payload is
\* produced.
C11_UnsupportedTypeReturnsError ==
  (cvOut.op # "none" /\ HasUnsupported(cvIn) /\ ~HasInvalidUTF8(cvIn)) =>
    /\ cvOut.how = "return"
    /\ cvOut.err = ErrInvalidType
    /\ cvOut.val = NilValue

\* C11 but for the way the error reaches the caller: the conversion fails
\* with the 'invalid type' error and produces no payload.
C11_UnsupportedTypeFails ==
  (cvOut.op # "none" /\ HasUnsupported(cvIn) /\ ~HasInvalidUTF8(cvIn)) =>
    (cvOut.err = ErrInvalidType /\ cvOut.val = NilValue)

\* The number a bit pattern v of the given width stands for, as a pattern
\* of five limbs (80 bits, two's complement), wide enough for every 64-bit
\* number of either signedness.
Wide(signed, bits, v) ==
  LET neg == signed /\ (IF bits = 8 THEN v[1] >= 128 ELSE v[Len(v)] >= 32768)
  IN  [i \in 1..5 |->
         IF i = 1 /\ bits = 8 /\ neg THEN v[1] + 65280
         ELSE IF i <= Len(v) THEN v[i]
         ELSE IF neg THEN 65535 ELSE 0]

\* The IntegerValue out (an int64) holds the number the Go integer in holds.
SameNumber(in, out) ==
  /\ out.k = "IntegerValue"
  /\ Wide(in.k \in SignedTypes, Bits(in.k), in.v) = Wide(TRUE, 64, out.v)

\* C12: every signed or unsigned integer, of any bit width, converts to an
\* integer Value that holds the same number as the input; an unsigned
\* 64-bit input above 2^63-1 does not become a negative number.
C12_IntegerValuePreserved ==
  (cvOut.op = "newValue" /\ cvIn.k \in IntTypes) =>
    (cvOut.err = "" /\ SameNumber(cvIn, cvOut.val))

\* C12 for the integers the converter has a case for and that an int64 can
\* hold: the types of the table, the unsigned ones below 2^63.
C12_RepresentablePreserved ==
  (/\ cvOut.op = "newValue"
   /\ cvIn.k \in TableIntTypes
   /\ (cvIn.k \in {"uint", "uint64"} => cvIn.v[4] < 32768)) =>
    (cvOut.err = "" /\ SameNumber(cvIn, cvOut.val))

\* C12 for the types of the table alone: what is left is the cast of an
\* unsigned 64-bit number above 2^63-1.
C12_TableTypesPreserved ==
  (cvOut.op = "newValue" /\ cvIn.k \in TableIntTypes) =>
    (cvOut.err = "" /\ SameNumber(cvIn, cvOut.val))

(***************************************************************************)
(* Properties of the plugins (checked under Spec).                         *)
(***************************************************************************)
Adapters == {"js", "go"}
Range(s) == {s[i] : i \in 1..Len(s)}
Min(a, b) == IF a <= b THEN a ELSE b

\* The payload keys a plugin is configured with, and the namespace of the
\* ids it writes.
ContentKeyOf(a) == IF a = "js" THEN contentKey ELSE contentPayloadKey
MetadataKeyOf(a) == IF a = "js" THEN metadataKey ELSE metadataPayloadKey
PointIdOf(a, doc) ==
  IF a = "js" THEN uuidv5(doc) ELSE generatePointId(doc).id
WrittenBy(a, p) == p.id.ns = (IF a = "js" THEN "URL" ELSE "DNS")

\* A step that is a call op of a plugin in A.
CallStep(A, op) ==
  call.op = "none" /\ call'.op = op /\ call'.adapter \in A

\* C1, for the plugins in A: a retriever call for a collection that does
\* not exist fails with a 'collection does not exist' error, and neither
\* creates the collection nor calls the embedder nor issues the query.
C1For(A) ==
  (call.op = "retrieve" /\ call.adapter \in A /\ ~exists) =>
    /\ result.status = "error"
    /\ result.err \in {ErrNoCollection, ErrNotFound}
    /\ Range(trace) \cap {"createCollection", "embed", "query"} = {}

\* C1: a retriever call for a collection that does not exist fails with a
\* descriptive 'collection does not exist' error: it does not create the
\* collection, issues neither the embedding call nor the query, and returns
\* no empty result set.
C1_MissingCollectionFailsFast == C1For(Adapters)

\* C2, for the plugins in A.
C2For(A) ==
  (/\ CallStep(A, "index")
   /\ ~exists
   /\ call'.docs # <<>>
   /\ Embed(call'.docs).err = "") =>
    /\ \E i \in 1..Len(trace') : \E j \in (i + 1)..Len(trace') :
         trace'[i] = "createCollection" /\ trace'[j] = "upsert"
    /\ result'.status = "ok"
    /\ exists'
    /\ Range(sent') # {}
    /\ Range(sent') \subseteq points'

\* C2: an indexer call with a non-empty document list for a collection that
\* does not exist creates the collection before it issues the upsert, so
\* that (the embedder answering) the call succeeds and the collection exists
\* afterwards with the points of the call in it.
C2_IndexCreatesCollection == [][C2For(Adapters)]_vars

\* C3, for the plugins in A.
C3For(A) ==
  (CallStep(A, "index") /\ call'.docs = <<>>) =>
    /\ result'.status = "ok"
    /\ Range(trace') \cap {"createCollection", "upsert"} = {}
    /\ UNCHANGED backend

\* C3: an indexer call with an empty document list succeeds as a no-op: no
\* collection is created, no upsert is issued and no error is raised,
\* whether the collection exists or not.
C3_EmptyIndexIsNoOp == [][C3For(Adapters)]_vars

\* The documents plugin a indexed, and the number of distinct contents
\* among them.
IndexedBy(a) == {e.doc : e \in {x \in indexed : x.adapter = a}}
Contents(D) == {{e \in D : SameContent(e, d)} : d \in D}

\* C4, for the plugins in A.
C4For(A) ==
  \A a \in A :
    Cardinality({p \in points : WrittenBy(a, p)})
      = Cardinality(Contents(IndexedBy(a)))

\* C4: indexing is idempotent: after any sequence of successful indexer
\* calls the backend holds exactly one point for each distinct document
\* content that was indexed, however often it was submitted.
C4_OnePointPerContent == C4For(Adapters)

\* C5, for the plugins in A.
C5For(A) ==
  (call.op = "index" /\ call.adapter \in A /\ Len(sent) = Len(call.docs)) =>
    \A i, j \in 1..Len(sent) :
      SameContent(call.docs[i], call.docs[j]) => sent[i].id = sent[j].id

\* C5: the point id is a function of the document's content alone: two
\* documents with the same content chunks and the same metadata mapping,
\* whatever the order its keys were inserted in, get the same id.
C5_IdOfContentAlone == C5For(Adapters)

\* C6, for the plugins in A.
C6For(A) ==
  (/\ call.op = "retrieve"
   /\ call.adapter \in A
   /\ call.options.k # None
   /\ call.options.filter = None
   /\ call.options.scoreThreshold = None
   /\ call.query[1] \in DOMAIN Registry
   /\ exists
   /\ \A p \in points : WrittenBy(call.adapter, p)) =>
    /\ result.status = "ok"
    /\ Len(result.documents) = Min(call.options.k[1], Cardinality(points))
    /\ Len(hits) = Len(result.documents)
    /\ \A i \in 1..Len(hits) :
         /\ \E d \in IndexedBy(call.adapter) :
              /\ PointIdOf(call.adapter, d) = hits[i].id
              /\ result.documents[i].content = JoinText(d.content)
         /\ \A p \in points :
              (\A j \in 1..Len(hits) : hits[j].id # p.id) =>
                Score(request[1].query, p.vector) <= hits[i].score

\* C6: a retrieve call with result limit K on a collection of N indexed
\* documents returns exactly min(K, N) documents, those whose vectors are
\* nearest to the query's embedding, each with the text it was indexed
\* with, in the order of the backend's hits.
C6_ReturnsNearestK == C6For(Adapters)

\* C7, for the plugins in A.
C7For(A) ==
  (/\ call.op = "retrieve"
   /\ call.adapter \in A
   /\ \E i \in 1..Len(hits) :
        ContentKeyOf(call.adapter) \notin DOMAIN hits[i].payload) =>
    result.status = "error"

\* C7: when a hit's payload lacks the configured content field the retrieve
\* call fails with an explicit error; it returns no document with empty
\* content for that hit.
C7_MissingContentFails == C7For(Adapters)

\* The metadata mapping stored in a hit's payload under key.
StoredMetadata(hit, key) ==
  IF key \in DOMAIN hit.payload THEN hit.payload[key].v ELSE <<>>

\* C8, for the plugins in A.
C8For(A) ==
  (call.op = "retrieve" /\ call.adapter \in A /\ result.status = "ok") =>
    \A i \in 1..Len(hits) :
      LET doc == result.documents[i]
          stored == StoredMetadata(hits[i], MetadataKeyOf(call.adapter))
      IN  /\ DOMAIN doc.metadata = DOMAIN stored \cup {SimilarityScoreKey}
          /\ doc.metadata[SimilarityScoreKey] = newDoubleValue(hits[i].score)
          /\ \A key \in DOMAIN stored \ {SimilarityScoreKey} :
               doc.metadata[key] = stored[key]
          /\ doc.dataType =
               IF call.adapter = "js" /\ dataTypeKey \in DOMAIN hits[i].payload
               THEN hits[i].payload[dataTypeKey].v
               ELSE Text_text

\* C8: the document returned for a hit has the hit's stored metadata with
\* one injected similarity score field, whose value is the hit's score (the
\* injected value wins over a stored key of that name), and the stored
\* content type, or "text" when none is stored.
C8_MetadataWithScore == C8For(Adapters)

\* C13, for the plugins in A.
C13For(A) ==
  (/\ call.op = "retrieve"
   /\ call.adapter \in A
   /\ call.options.type # "other"
   /\ call.options.k = None
   /\ request # None) =>
    request[1].limit = 10

\* C13: when the caller of the retriever supplies no result limit (no
\* options, or options without a limit), the nearest-neighbour query is
\* issued with limit 10.
C13_DefaultLimitIsTen == C13For(Adapters)

\* C14: a retrieve call whose options value has the wrong type fails with
\* the error about the options' type and has made no external call: no
\* embedder call and no query were issued before the error was returned.
C14_WrongOptionsFailFast ==
  (call.op = "retrieve" /\ call.options.type = "other") =>
    /\ result = Failed(ErrOptionsType)
    /\ trace = <<>>
    /\ request = None
    /\ hits = <<>>

\* A retrieve call with options of the wrong type was made on a collection
\* that holds points, for a query the embedder knows.
C14_Witness ==
  /\ call.op = "retrieve"
  /\ call.options.type = "other"
  /\ call.query[1] \in DOMAIN Registry
  /\ exists
  /\ points # {}
  /\ result.status = "error"

\* C15, for the calls op of the Go plugin: every external call was made
\* under the caller's context, and once the caller has cancelled it no
\* external call made from then on has answered.
C15For(ops) ==
  (call.adapter = "go" /\ call.op \in ops) =>
    /\ \A i \in 1..Len(ctxs) : ctxs[i] = Ctx_caller
    /\ (call.cancelAt # 0 /\ Len(trace) >= call.cancelAt) =>
         (result.status # "ok" /\ hits = <<>>)

\* C15: every external call of an index or a retrieve call (embedding,
\* upsert, query) is made under the caller's request context, so that after
\* the caller cancelled it every later external call of the operation is
\* abandoned; none is made under a context the caller cannot cancel.
C15_CallsUnderCallerContext == C15For({"index", "retrieve"})

\* C15 for a caller that cancels after the embedding returned: the call
\* fails and has no hits.
C15_CancelBeforeQuery ==
  (call.adapter = "go" /\ call.cancelAt = 2 /\ Len(trace) = 2) =>
    (result.status = "error" /\ hits = <<>>)

\* The form a metadata value of an indexed document is stored in by the
\* plugin a.
StoredForm(a, v) == IF a = "js" THEN JSONValue(v) ELSE newValue(v).val

\* The document doc, returned for hit by the plugin a, carries the text and
\* the metadata values that d was indexed with (leaving aside the injected
\* similarity score).
Carries(a, doc, d) ==
  /\ doc.content = JoinText(d.content)
  /\ DOMAIN doc.metadata \ {SimilarityScoreKey}
       = MetaKeys(d) \ {SimilarityScoreKey}
  /\ \A key \in MetaKeys(d) \ {SimilarityScoreKey} :
       doc.metadata[key] = StoredForm(a, MetaMap(d)[key])

\* C16, for the plugins in A: the key the indexer writes a field under is
\* the key the retriever requests and reads, and a document returned for a
\* point this plugin wrote carries what it was indexed with.
C16For(A) ==
  /\ "go" \in A =>
       /\ indexContentKey = contentPayloadKey
       /\ indexMetadataKey = metadataPayloadKey
  /\ (call.op = "retrieve" /\ call.adapter \in A /\ result.status = "ok") =>
       \A i \in 1..Len(hits) :
         \A d \in IndexedBy(call.adapter) :
           PointIdOf(call.adapter, d) = hits[i].id =>
             Carries(call.adapter, result.documents[i], d)

\* C16: index followed by retrieve round-trips a document under every
\* configuration of the payload keys: for each key, overridden or left to
\* its default, the indexer writes the field under the key the retriever of
\* the same configuration requests and reads, so that a returned document
\* carries the text and the metadata values it was indexed with.
C16_PayloadKeysRoundTrip == C16For(Adapters)

\* C16 for the current copy of the Go plugin and the JS plugin.
C16_CurrentBuild == goCfg.build = "current" => C16For(Adapters)

\* The embeddings the embedder returns for the i-th document of docs to the
\* plugin a, and the text of the j-th of the n chunks of doc.
EmbeddingsOf(a, docs, i) ==
  IF a = "js" THEN JsEmbed(docs[i]).embeddings
  ELSE <<[embedding |-> Registry[docs[i]]]>>
ChunkText(a, doc, j, n) ==
  IF a = "js" /\ n > 1 THEN doc.content[j].text ELSE JoinText(doc.content)

\* The position in the batch of the point of the j-th embedding of the i-th
\* document.
RECURSIVE Slot(_, _, _, _)
Slot(a, docs, i, j) ==
  IF i = 1 THEN j
  ELSE Len(EmbeddingsOf(a, docs, i - 1)) + Slot(a, docs, i - 1, j)

\* The point p holds the vector v, the text t and the metadata of doc, as
\* the plugin a stores them.
Holds(a, p, v, t, doc) ==
  /\ p.vector = v
  /\ IF a = "js"
     THEN /\ p.payload[contentKey] = newStringValue(t)
          /\ p.payload[metadataKey] =
               newStructValue([key \in MetaKeys(doc) |->
                                 JSONValue(MetaMap(doc)[key])])
     ELSE /\ p.payload[indexContentKey] = newValue(GoString(t)).val
          /\ p.payload[indexMetadataKey] = newValue(GoMap(MetaMap(doc))).val

\* C17, for the plugins in A.
C17For(A) ==
  (call.op = "index" /\ call.adapter \in A /\ "upsert" \in Range(trace)) =>
    LET a == call.adapter
        docs == call.docs
        total == IF Len(docs) = 0 THEN 0
                 ELSE Slot(a, docs, Len(docs),
                           Len(EmbeddingsOf(a, docs, Len(docs))))
    IN  /\ Len(sent) = total
        /\ \A i \in 1..Len(docs) :
             LET embs == EmbeddingsOf(a, docs, i)
             IN  \A j \in 1..Len(embs) :
                   Holds(a, sent[Slot(a, docs, i, j)], embs[j].embedding,
                         ChunkText(a, docs[i], j, Len(embs)), docs[i])

\* C17: whatever order the concurrently issued embedding calls complete in,
\* the batch holds, for every document i and every embedding j returned for
\* it, exactly one point, at a position of its own, whose vector is that
\* embedding and whose payload comes from the j-th chunk of document i.
C17_PointsPairedByPosition == C17For(Adapters)

\* A JS index call of two different documents, one of them of two chunks,
\* has sent its batch of three points.
C17_Witness ==
  /\ call.op = "index" /\ call.adapter = "js"
  /\ call.docs = <<Doc_hello1, Doc_hello2>>
  /\ "upsert" \in Range(trace)
  /\ Len(sent) = 3
  /\ result.status = "ok"

\* During the index call of docs by the plugin a the embedder fails, or the
\* id or the payload of a document cannot be built.
EmbedderFails(a, docs) ==
  IF a = "js" THEN \E i \in 1..Len(docs) : JsEmbed(docs[i]).err # ""
  ELSE Len(docs) > 0 /\ Embed(docs).err # ""
PointFails(a, docs) ==
  /\ a = "go"
  /\ \E i \in 1..Len(docs) :
       \/ generatePointId(docs[i]).err # ""
       \/ newValue(GoMap(MetaMap(docs[i]))).errs # {}
       \/ newValue(GoString(JoinText(docs[i].content))).errs # {}

\* C18, for the plugins in A, a failed call ending in one of the ways in
\* statuses.
C18For(A, statuses) ==
  (/\ call.op = "index" /\ call.adapter \in A
   /\ EmbedderFails(call.adapter, call.docs) \/ PointFails(call.adapter, call.docs))
    => /\ result.status \in statuses
       /\ "upsert" \notin Range(trace)
       /\ sent = <<>>

\* C18: an index call during which the embedder fails, or the id or the
\* payload of a document cannot be built, returns an error to its caller
\* and issues no upsert: no point of the batch is sent.
C18_FailureReturnsErrorNoUpsert == C18For(Adapters, {"error"})

\* C18 without the way the call ends: it does not succeed, by an error or
\* by a panic, and issues no upsert.
C18_FailureNoUpsert == C18For(Adapters, {"error", "panic"})

\* The calls of an index call's trace that follow those of the lifecycle
\* helper.
OwnCalls(tr) ==
  LET helper == {i \in 1..Len(tr) :
                   tr[i] \in {"collectionExists", "createCollection"}}
      last == IF helper = {} THEN 0
              ELSE CHOOSE i \in helper : \A l \in helper : l <= i
  IN  SubSeq(tr, last + 1, Len(tr))

\* The number of embedding calls the plugin a makes for docs.
EmbeddingCalls(a, docs) == IF a = "js" THEN Len(docs) ELSE 1

\* C19: an index call of a non-empty list makes its embedding calls once
\* each and issues the upsert at most once, after all of them, the upsert
\* carrying one point for every embedding of the call; a call that failed,
\* embedding or upsert, is not made again.
C19_SingleUpsertAfterEmbeddings ==
  (call.op = "index" /\ Len(call.docs) > 0) =>
    LET a == call.adapter
        docs == call.docs
        own == OwnCalls(trace)
        embeds == [i \in 1..EmbeddingCalls(a, docs) |-> "embed"]
    IN  /\ own \in {<<>>, embeds, embeds \o <<"upsert">>}
        /\ "upsert" \in Range(own) =>
             Len(sent) = Slot(a, docs, Len(docs),
                              Len(EmbeddingsOf(a, docs, Len(docs))))
        /\ "upsert" \notin Range(own) => sent = <<>>

\* An index call of two documents by the Go plugin whose upsert, issued
\* after the embedding with both points, the backend refused.
C19_Witness ==
  /\ call.op = "index" /\ call.adapter = "go" /\ Len(call.docs) = 2
  /\ call.cancelAt = 0
  /\ result.status = "error"
  /\ Len(sent) = 2
  /\ trace = <<"embed", "upsert">>

\* The calls of a trace made before the collection was created, and the
\* embedding the probe text gets.
BeforeCreate(tr) ==
  SubSeq(tr, 1, (CHOOSE i \in 1..Len(tr) : tr[i] = "createCollection") - 1)
ProbeEmbedding == Registry[DocumentFromText(Text_SOME_TEXT, <<>>)]

\* C20: when the lifecycle helper creates the missing collection, it
\* passes configured create options to the backend as they are and makes no
\* probe embedding call; with none configured it makes exactly one probe
\* embedding call and creates the collection with the length of the probe
\* embedding as the vector size and Cosine as the distance.
C20_CreateOptionsOrProbe ==
  (call.adapter = "js" /\ "createCollection" \in Range(trace)) =>
    LET probes == {i \in 1..Len(BeforeCreate(trace)) :
                     BeforeCreate(trace)[i] = "embed"}
    IN  /\ Cardinality({i \in 1..Len(trace) : trace[i] = "createCollection"}) = 1
        /\ exists
        /\ IF jsParams.collectionCreateOptions # None
           THEN /\ probes = {}
                /\ schema = jsParams.collectionCreateOptions
           ELSE /\ Cardinality(probes) = 1
                /\ schema =
                     Some([vectors |-> [size |-> Len(ProbeEmbedding),
                                        distance |-> "Cosine"]])

\* An index call of the JS plugin, configured without create options,
\* found no collection and created it after one probe embedding.
C20_Witness ==
  /\ call.op = "index" /\ call.adapter = "js"
  /\ jsParams.collectionCreateOptions = None
  /\ SubSeq(trace, 1, 3) = <<"collectionExists", "embed", "createCollection">>
  /\ schema = Some([vectors |-> [size |-> 2, distance |-> "Cosine"]])

\* C22, for the plugins in A.  The configuration of a plugin never changes,
\* so that every point a plugin wrote it wrote under the configuration it
\* retrieves with.
C22For(A) ==
  (/\ call.op = "retrieve"
   /\ call.adapter \in A
   /\ Len(hits) > 0
   /\ \A i \in 1..Len(hits) :
        /\ WrittenBy(call.adapter, hits[i])
        /\ \E d \in IndexedBy(call.adapter) :
             PointIdOf(call.adapter, d) = hits[i].id) =>
    /\ result.status = "ok"
    /\ Len(result.documents) = Len(hits)

\* C22: every point written by a successful indexer call is retrievable: a
\* retrieve call whose hits are all points this plugin wrote under its
\* configuration does not fail because of the payload of such a point, the
\* point of a document of empty text included, and returns a document for
\* every hit.
C22_WrittenPointsRetrievable == C22For(Adapters)

\* C21: when indexer calls for a collection that does not exist run
\* concurrently, whatever the interleaving of their existence checks and
\* create calls, the collection is created exactly once, and no call fails
\* because another call created the collection between its existence check
\* and its create call.
C21_CreatedOnceNoCallRefused ==
  /\ \A p \in DOMAIN inflight : inflight[p].err # ErrExists
  /\ (\A p \in DOMAIN inflight : inflight[p].pc \in {"embed", "upsert", "done"}) =>
       created = 1

\* C21 without the refused calls: the backend creates the collection once
\* at most, and once when every call is past ensureCollection.
C21_CreatedOnce ==
  /\ created <= 1
  /\ (\A p \in DOMAIN inflight : inflight[p].pc \in {"embed", "upsert", "done"}) =>
       created = 1

\* C21 for a call that finds the collection missing and creates it before
\* any other call has checked: it is not refused.
C21_FirstAlone ==
  \A p \in DOMAIN inflight :
    (\A q \in DOMAIN inflight \ {p} : inflight[q].pc = "ensure") =>
      inflight[p].err # ErrExists

\* The same statements for one plugin alone.
C1_Js == C1For({"js"})
C2_Js == [][C2For({"js"})]_vars
C3_Go == [][C3For({"go"})]_vars
C4_Go == C4For({"go"})
C5_Go == C5For({"go"})
C6_Js == C6For({"js"})
C7_Go == C7For({"go"})
C8_Js == C8For({"js"})
C13_Js == C13For({"js"})
C15_Index == C15For({"index"})
C18_Js == C18For({"js"}, {"error"})
C22_Js == C22For({"js"})
=============================================================================
